---- MODULE Spec2Model ----
(***************************************************************************)
(* NiceOutputStream (agent/outputstream.c): a GOutputStream wrapper that   *)
(* turns the agent's non-blocking send and its "reliable-transport-        *)
(* writable" signal into a blocking write.                                 *)
(*                                                                         *)
(* One NiceOutputStream, one calling thread that issues operations one at  *)
(* a time, and the contexts that run concurrently with it: the agent       *)
(* (writability and streams-removed signals), whoever                      *)
(* cancels the GCancellable, whoever closes the stream, and the            *)
(* application dropping its reference to the agent or getting one back     *)
(* from the stream's "agent" property.                                     *)
(***************************************************************************)
EXTENDS Integers, Sequences, FiniteSets, TLC

\* Buffer lengths offered to write(): 0..MaxCount.
MaxCount == 2
\* How many times the agent's send may answer WouldBlock within one call.
MaxWouldBlock == 2
\* Longest list of stream ids a streams-removed signal carries (before its 0).
MaxIds == 2
\* Stream ids known to the agent: 1..MaxStreamId.
MaxStreamId == 2
\* Agent references an operation may leave behind before the model stops
\* issuing operations that keep one.
MaxAgentRefs == 1

VARIABLES
  \* ---- NiceOutputStream / GOutputStream
  closed,        \* GOutputStream's closed flag (g_output_stream_is_closed)
  stream_id,     \* priv->stream_id
  lastRemoval,   \* history: did the last streams-removed signal name stream_id,
                 \* and if so, was the stream closed already ("again")?
  \* ---- NiceAgent as seen through the weak reference
  agentOwner,    \* the application still holds its reference on the agent
  agentRefs,     \* strong references taken by stream operations, not yet dropped
  agentLock,     \* who is inside agent_lock () ... agent_unlock (): "none", the
                 \* "writer" in its send, or an agent context whose writability
                 \* handler has been invoked ("agent"; "late" once the call the
                 \* handler was connected for has returned to its caller)
  \* ---- the operation in progress (locals of the running function)
  pc, op, count, hasToken,
  cancelled,     \* g_cancellable_is_cancelled (cancellable)
  cancelCb,      \* "cancelled" emission has begun, write_cancelled_cb not yet run
  len, childErr, sendSawCancel,
  result, resErr, source,
  \* ---- WriteData
  wdRef, wdError, wdWritable, mutex, woken,
  writableSub,   \* writeable_id is connected
  cancelSub,     \* cancel_id is connected
  \* ---- history of the current call
  attempts, nWouldBlock, accepted, notifiedRetries, lastSend,
  closedAtCall, agentGoneAtCall, closedAtReturn, queried,
  cancelZero, cancelProgress, removedWhileParked,
  parked         \* history: the call has been in g_cond_wait

streamVars == <<closed, stream_id, lastRemoval>>
agentVars  == <<agentOwner, agentRefs, agentLock>>
callVars   == <<pc, op, count, hasToken, cancelled, cancelCb, len, childErr,
                sendSawCancel, result, resErr, source>>
wdVars     == <<wdRef, wdError, wdWritable, mutex, woken, writableSub, cancelSub>>
histVars   == <<attempts, nWouldBlock, accepted, notifiedRetries, lastSend,
                closedAtCall, agentGoneAtCall, closedAtReturn, queried,
                cancelZero, cancelProgress, removedWhileParked, parked>>
vars == <<streamVars, agentVars, callVars, wdVars, histVars>>

(***************************************************************************)
(* Pure pieces of the code.                                                *)
(***************************************************************************)

\* A write path that forgot the closed check.
StreamIsClosed_Never == FALSE

\* g_output_stream_is_closed (stream)
StreamIsClosed == closed

\* The agent is alive while anyone holds a strong reference on it.
AgentAlive == agentOwner \/ agentRefs > 0

\* A weak reference that is used without being resolved.
WeakRefGet_Unchecked == TRUE

\* g_weak_ref_get (&priv->agent_ref) != NULL
WeakRefGet == AgentAlive

\* streams_removed_cb's loop: is priv->stream_id among the ids before the 0?
RECURSIVE IdsContain(_, _)
IdsContain(ids, sid) ==
  IF ids = <<>> THEN FALSE
  ELSE IF Head(ids) = sid THEN TRUE
  ELSE IdsContain(Tail(ids), sid)

\* A write that treats an empty buffer like any other.
ZeroLength_Never(cnt) == FALSE

\* "if (count == 0)"
ZeroLength(cnt) == cnt = 0

\* A loop that takes WouldBlock for a failure like any other.
IsWouldBlock_Never(n, e) == FALSE

\* "n_sent_messages == -1 && g_error_matches (child_error, G_IO_ERROR,
\* G_IO_ERROR_WOULD_BLOCK)"
IsWouldBlock(n, e) == n = -1 /\ e = "WouldBlock"

\* nice_output_stream_write is the stream's write_fn: it runs inside
\* g_output_stream_write, which holds the stream's pending flag from before the
\* call until after its return.  The pollable calls do not take the flag.
StreamHasPending == op = "write" /\ pc \notin {"idle", "done", "abort"}

\* The closed flag after g_output_stream_close (stream, NULL, NULL): a stream
\* with an operation pending refuses (G_IO_ERROR_PENDING) and stays as it was.
ClosedAfterClose(c) == IF StreamHasPending THEN c ELSE TRUE

\* A handler that sets the closed flag from the list alone.
ClosedAfterRemoval_Assign(c, ids, sid) == IdsContain(ids, sid)

\* "if (stream_ids[i] == self->priv->stream_id) { g_output_stream_close (...);
\* break; }": the closed flag after the handler has run; the outcome of the
\* close is not looked at.
ClosedAfterRemoval(c, ids, sid) ==
  IF IdsContain(ids, sid) THEN ClosedAfterClose(c) ELSE c

\* A loop that goes to the next send with the flag as it found it.
ClearedWritable_Kept(w) == w

\* "write_data->writable = FALSE"
ClearedWritable(w) == FALSE

\* A retry loop that waits after every WouldBlock, whatever the flags say.
MustWait_Always(w, e) == TRUE

\* "if (!write_data->writable && !write_data->error) g_cond_wait (...)"
MustWait(w, e) == ~w /\ ~e

\* A loop that goes into the agent with write_data->mutex still taken.
UnlockedMutex_StillHeld == "writer"

\* "g_mutex_unlock (&write_data->mutex)" ahead of the send: nobody holds it.
UnlockedMutex == "none"

\* The agent's send does its work between agent_lock and agent_unlock, as
\* the stream's own queries of the agent do; who holds the lock meanwhile.
AgentLockInSend == "writer"

\* "Success": len = count
SuccessLen(n, cnt, l) == cnt

\* An error branch that reports "nothing sent" instead of the failure.
ErrorLen_Zero(n) == 0

\* An error branch that loses the sign of n_sent_messages.
ErrorLen_Negated(n) == -n

\* "Other error": len = n_sent_messages
ErrorLen(n) == n

\* "if (write_data->error && !child_error && len == 0)"
SurfaceCancel(e, ce, l) == e /\ ce = "none" /\ l = 0

\* What the caller finds in *error.  Line 447 hands write_data->error to
\* child_error without unsetting it, so on that branch ("shared") the error
\* the caller is given is the one write_data_unref frees with the WriteData:
\* reading it gives what was there or whatever the memory holds by then.
ReturnedError(ce, shared) == IF shared THEN {ce, "Garbage"} ELSE {ce}

\* "return (n_sent_messages == 1) ? (gssize) count : n_sent_messages"
NonblockingResult(n, cnt) == IF n = 1 THEN cnt ELSE n

\* What the agent holds for the stream/component at the moment it is asked,
\* under agent_lock: found = agent_find_component succeeds, tcp = agent->reliable
\* && component->tcp != NULL && pseudo_tcp_socket_can_send, sock = some socket of
\* the component polls G_IO_OUT, trigger = component->tcp_writable_cancellable
\* is set.  The component changes inside the agent at any time, so every query
\* may see any of them.
ComponentStates == [found : BOOLEAN, tcp : BOOLEAN, sock : BOOLEAN,
                    trigger : BOOLEAN]

\* The body of nice_output_stream_is_writable after its two early returns.
ComponentWritable(c) == c.found /\ (c.tcp \/ c.sock)

\* The errors other than WouldBlock that a send can report.  write hands the
\* send the caller's token (line 417): a send called with a token that is
\* already cancelled may report Cancelled, and nothing obliges it to.
SendErrors(sawCancel) ==
  {"Failed"} \cup (IF sawCancel THEN {"Cancelled"} ELSE {})

\* nice_agent_send_messages_nonblocking on one message of `remaining` bytes,
\* which never blocks: it accepts some bytes (at least one), or reports
\* WouldBlock, or fails with another error, whatever the state of the token.
AgentSend(remaining, sawCancel) ==
  {[n |-> -1, err |-> "WouldBlock"]}
  \cup {[n |-> -1, err |-> e] : e \in SendErrors(sawCancel)}
  \cup {[n |-> k, err |-> "none"] : k \in 1..remaining}

\* The lists a streams-removed signal can carry: the streams removed, each
\* named once.
IdLists ==
  UNION {{ids \in [1..k -> 1..MaxStreamId] :
            \A i, j \in 1..k : i # j => ids[i] # ids[j]} : k \in 1..MaxIds}

(***************************************************************************)
(* Initial state: a constructed stream, no operation running.  The stream  *)
(* may have been built after the agent was finalised (agent == NULL).      *)
(***************************************************************************)
NoCall ==
  /\ op = "none" /\ count = 0 /\ hasToken = FALSE /\ cancelled = FALSE
  /\ cancelCb = FALSE /\ len = -1 /\ childErr = "none" /\ sendSawCancel = FALSE
  /\ result = 0 /\ resErr = "none" /\ source = <<>>
  /\ wdRef = 0 /\ wdError = FALSE /\ wdWritable = FALSE /\ mutex = "none"
  /\ woken = FALSE /\ writableSub = FALSE /\ cancelSub = FALSE
  /\ attempts = 0 /\ nWouldBlock = 0 /\ accepted = 0 /\ notifiedRetries = 0
  /\ lastSend = "none" /\ closedAtCall = FALSE /\ agentGoneAtCall = FALSE
  /\ closedAtReturn = FALSE /\ queried = FALSE /\ cancelZero = FALSE
  /\ cancelProgress = FALSE /\ removedWhileParked = FALSE /\ parked = FALSE

Init ==
  /\ closed = FALSE
  /\ stream_id = 1
  /\ lastRemoval = "none"
  /\ agentOwner \in BOOLEAN
  /\ agentRefs = 0
  /\ agentLock = "none"
  /\ pc = "idle"
  /\ NoCall

(***************************************************************************)
(* The callbacks' bodies.  Each runs with write_data->mutex taken, so it   *)
(* is one step; g_cond_broadcast wakes the writer if it is waiting.        *)
(***************************************************************************)
write_cancelled_cb ==
  /\ wdError' = (wdError \/ cancelled')
  /\ woken' = (woken \/ pc = "wait")

reliable_transport_writeable_cb ==
  /\ wdWritable' = TRUE
  /\ woken' = (woken \/ pc = "wait")

(***************************************************************************)
(* nice_output_stream_write, step by step.                                 *)
(***************************************************************************)
\* A call that returns from its first checks.
ReturnNow(o, r, e) ==
  /\ pc' = "done" /\ op' = o /\ result' = r /\ resErr' = e
  /\ closedAtReturn' = closed

\* Lines 358-388: closed? agent gone? count == 0? else allocate WriteData.
write_entry(cnt, tok, pre) ==
  /\ pc = "idle"
  /\ count' = cnt /\ hasToken' = tok /\ cancelled' = (tok /\ pre)
  /\ closedAtCall' = closed /\ agentGoneAtCall' = ~AgentAlive
  /\ IF StreamIsClosed \/ ~WeakRefGet
       THEN /\ ReturnNow("write", -1, "Closed")
            /\ UNCHANGED <<agentRefs, len, wdRef>>
       ELSE IF ZeroLength(cnt)
         THEN /\ ReturnNow("write", 0, "none")
              /\ UNCHANGED <<agentRefs, len, wdRef>>
         ELSE /\ pc' = "connect_cancel" /\ op' = "write"
              /\ agentRefs' = agentRefs + 1
              /\ len' = 0 /\ wdRef' = 3
              /\ UNCHANGED <<result, resErr, closedAtReturn>>
  /\ UNCHANGED <<streamVars, agentOwner, agentLock, cancelCb, childErr,
                 sendSawCancel, source, wdError, wdWritable, mutex, woken, writableSub, cancelSub,
                 attempts, nWouldBlock, accepted, notifiedRetries, lastSend,
                 queried, cancelZero, cancelProgress, removedWhileParked, parked>>

\* Lines 390-394: g_cancellable_connect.  On a token that is already cancelled
\* it runs the callback at once, then the destroy notify, and returns 0.
write_connect_cancel ==
  /\ pc = "connect_cancel"
  /\ pc' = "lock"
  /\ UNCHANGED cancelled
  /\ IF hasToken /\ cancelled
       THEN /\ write_cancelled_cb
            /\ wdRef' = wdRef - 1
            /\ cancelZero' = TRUE
            /\ UNCHANGED cancelSub
       ELSE /\ cancelSub' = hasToken
            /\ UNCHANGED <<wdError, woken, wdRef, cancelZero>>
  /\ UNCHANGED <<streamVars, agentVars, op, count, hasToken, cancelCb, len,
                 childErr, sendSawCancel, result, resErr, source, wdWritable,
                 mutex, writableSub, attempts, nWouldBlock, accepted,
                 notifiedRetries, lastSend, closedAtCall, agentGoneAtCall,
                 closedAtReturn, queried, cancelProgress, removedWhileParked, parked>>

\* Lines 396-401: take the mutex, connect to "reliable-transport-writable".
write_lock_connect ==
  /\ pc = "lock" /\ mutex = "none"
  /\ mutex' = "writer" /\ writableSub' = TRUE /\ pc' = "loop"
  /\ UNCHANGED <<streamVars, agentVars, op, count, hasToken, cancelled,
                 cancelCb, len, childErr, sendSawCancel, result, resErr, source,
                 wdRef, wdError, wdWritable, woken, cancelSub, histVars>>

\* Lines 405-413: writable = FALSE, unlock.
write_loop_clear ==
  /\ pc = "loop"
  /\ notifiedRetries' =
       IF attempts > 0 /\ wdWritable THEN notifiedRetries + 1 ELSE notifiedRetries
  /\ wdWritable' = ClearedWritable(wdWritable)
  /\ mutex' = UnlockedMutex /\ pc' = "send_call"
  /\ UNCHANGED <<streamVars, agentVars, op, count, hasToken, cancelled,
                 cancelCb, len, childErr, sendSawCancel, result, resErr, source,
                 wdRef, wdError, woken, writableSub, cancelSub,
                 attempts, nWouldBlock, accepted, lastSend, closedAtCall,
                 agentGoneAtCall, closedAtReturn, queried, cancelZero,
                 cancelProgress, removedWhileParked, parked>>

\* Line 415, the call: the agent's send starts, with the token it was handed,
\* and works under the agent's lock.
write_send_call ==
  /\ pc = "send_call" /\ agentLock = "none"
  /\ attempts' = attempts + 1
  /\ sendSawCancel' = (hasToken /\ cancelled)
  /\ pc' = "in_send" /\ agentLock' = AgentLockInSend
  /\ UNCHANGED <<streamVars, agentOwner, agentRefs, op, count, hasToken, cancelled,
                 cancelCb, len, childErr, result, resErr, source, wdVars,
                 nWouldBlock, accepted, notifiedRetries, lastSend, closedAtCall,
                 agentGoneAtCall, closedAtReturn, queried, cancelZero,
                 cancelProgress, removedWhileParked, parked>>

\* Lines 415-435: the send returns, the mutex is retaken, the result is
\* sorted into WouldBlock / success / other error, and the loop condition is
\* evaluated.  g_cond_wait releases the mutex while it waits.
write_send_return ==
  /\ pc = "in_send" /\ mutex = "none"
  /\ agentLock' = "none"
  /\ \E r \in AgentSend(count - len, sendSawCancel) :
       /\ r.err = "WouldBlock" => nWouldBlock < MaxWouldBlock
       /\ lastSend' = IF r.n > 0 THEN "accepted" ELSE r.err
       /\ IF IsWouldBlock(r.n, r.err)
            THEN /\ nWouldBlock' = nWouldBlock + 1
                 /\ IF MustWait(wdWritable, wdError)
                      THEN pc' = "wait" /\ mutex' = "none"
                      ELSE pc' = "loop" /\ mutex' = "writer"
                 /\ woken' = FALSE
                 /\ UNCHANGED <<len, childErr, accepted>>
            ELSE IF r.n > 0
              THEN /\ len' = SuccessLen(r.n, count, len)
                   /\ accepted' = accepted + r.n
                   /\ pc' = IF len' < count THEN "loop" ELSE "disconnect"
                   /\ mutex' = "writer"
                   /\ UNCHANGED <<childErr, nWouldBlock, woken>>
              ELSE /\ len' = ErrorLen(r.n)
                   /\ childErr' = r.err
                   /\ pc' = "disconnect" /\ mutex' = "writer"
                   /\ UNCHANGED <<accepted, nWouldBlock, woken>>
  /\ parked' = (parked \/ pc' = "wait")
  /\ UNCHANGED <<streamVars, agentOwner, agentRefs, op, count, hasToken,
                 cancelled, cancelCb, sendSawCancel, result, resErr, source,
                 wdRef, wdError, wdWritable, writableSub, cancelSub,
                 attempts, notifiedRetries, closedAtCall, agentGoneAtCall,
                 closedAtReturn, queried, cancelZero, cancelProgress,
                 removedWhileParked>>

\* Line 426 returning: the waiter has the mutex again; the loop condition
\* (len < count) still holds, so it goes round.  g_cond_wait is called once,
\* not in a loop on writable and error, and may return without a broadcast
\* (a spurious wake-up): the step does not ask for woken.
write_wake ==
  /\ pc = "wait" /\ mutex = "none"
  /\ mutex' = "writer" /\ woken' = FALSE /\ pc' = "loop"
  /\ UNCHANGED <<streamVars, agentVars, op, count, hasToken, cancelled,
                 cancelCb, len, childErr, sendSawCancel, result, resErr, source,
                 wdRef, wdError, wdWritable, writableSub, cancelSub, histVars>>

\* Lines 437-438: disconnect the writable handler, then unlock.  The closure's
\* notify drops one WriteData reference, at once unless the handler has been
\* invoked and has not returned: then the emission still holds the closure.
write_disconnect ==
  /\ pc = "disconnect"
  /\ writableSub' = FALSE
  /\ wdRef' = IF agentLock = "agent" THEN wdRef ELSE wdRef - 1
  /\ mutex' = "none" /\ pc' = "cancel_disconnect"
  /\ UNCHANGED <<streamVars, agentVars, op, count, hasToken, cancelled,
                 cancelCb, len, childErr, sendSawCancel, result, resErr, source,
                 wdError, wdWritable, woken, cancelSub, histVars>>

\* Lines 440-450: g_cancellable_disconnect waits for a running callback, then
\* drops the handler (and its WriteData reference); a recorded cancellation
\* becomes the error when nothing else went wrong and len is 0.
write_cancel_disconnect ==
  /\ pc = "cancel_disconnect" /\ ~cancelCb
  /\ pc' = "finish"
  /\ IF hasToken
       THEN /\ cancelSub' = FALSE
            /\ wdRef' = IF cancelSub THEN wdRef - 1 ELSE wdRef
            /\ IF SurfaceCancel(wdError, childErr, len)
                 THEN childErr' = "Cancelled" /\ len' = -1
                 ELSE UNCHANGED <<childErr, len>>
       ELSE UNCHANGED <<cancelSub, wdRef, childErr, len>>
  /\ UNCHANGED <<streamVars, agentVars, op, count, hasToken, cancelled,
                 cancelCb, sendSawCancel, result, resErr, source,
                 wdError, wdWritable, mutex, woken, writableSub, histVars>>

\* child_error came from line 447, not from the send: it is write_data->error.
ErrorIsShared == wdError /\ childErr = "Cancelled" /\ lastSend # "Cancelled"

\* Lines 452-461: drop the call's WriteData reference, the two assertions,
\* release the agent, return len.
write_finish ==
  /\ pc = "finish"
  /\ wdRef' = wdRef - 1
  /\ IF (childErr # "none") = (len = -1) /\ len # 0
       THEN /\ pc' = "done" /\ result' = len
            /\ resErr' \in ReturnedError(childErr, ErrorIsShared)
            /\ agentRefs' = agentRefs - 1
            /\ closedAtReturn' = closed
       ELSE /\ pc' = "abort"
            /\ UNCHANGED <<result, resErr, agentRefs, closedAtReturn>>
  /\ UNCHANGED <<streamVars, agentOwner, agentLock, op, count, hasToken,
                 cancelled, cancelCb, len,
                 childErr, sendSawCancel, source, wdError, wdWritable, mutex,
                 woken, writableSub, cancelSub, attempts, nWouldBlock, accepted,
                 notifiedRetries, lastSend, closedAtCall, agentGoneAtCall,
                 queried, cancelZero, cancelProgress, removedWhileParked, parked>>

\* The caller takes the result; the next operation can start.
Return ==
  /\ pc = "done"
  /\ pc' = "idle"
  /\ op' = "none" /\ count' = 0 /\ hasToken' = FALSE /\ cancelled' = FALSE
  /\ cancelCb' = FALSE /\ len' = -1 /\ childErr' = "none"
  /\ sendSawCancel' = FALSE /\ result' = 0 /\ resErr' = "none" /\ source' = <<>>
  /\ wdRef' = 0 /\ wdError' = FALSE /\ wdWritable' = FALSE /\ mutex' = "none"
  /\ woken' = FALSE /\ writableSub' = FALSE /\ cancelSub' = FALSE
  /\ attempts' = 0 /\ nWouldBlock' = 0 /\ accepted' = 0 /\ notifiedRetries' = 0
  /\ lastSend' = "none" /\ closedAtCall' = FALSE /\ agentGoneAtCall' = FALSE
  /\ closedAtReturn' = FALSE /\ queried' = FALSE /\ cancelZero' = FALSE
  /\ cancelProgress' = FALSE /\ removedWhileParked' = FALSE /\ parked' = FALSE
  /\ agentLock' = IF agentLock = "agent" THEN "late" ELSE agentLock
  /\ UNCHANGED <<streamVars, agentOwner, agentRefs>>

(***************************************************************************)
(* nice_output_stream_is_writable, nice_output_stream_write_nonblocking,   *)
(* nice_output_stream_create_source.                                       *)
(***************************************************************************)
\* Lines 465-481: closed? agent gone?  Both are tested before the agent's
\* lock is asked for; the agent is held from line 478 on.
is_writable ==
  /\ pc = "idle"
  /\ closedAtCall' = closed /\ agentGoneAtCall' = ~AgentAlive
  /\ IF StreamIsClosed \/ ~WeakRefGet
       THEN /\ ReturnNow("is_writable", 0, "none")
            /\ UNCHANGED agentRefs
       ELSE /\ pc' = "iw_lock" /\ op' = "is_writable"
            /\ agentRefs' = agentRefs + 1
            /\ UNCHANGED <<result, resErr, closedAtReturn>>
  /\ UNCHANGED <<streamVars, agentOwner, agentLock, count, hasToken, cancelled,
                 cancelCb, len, childErr, sendSawCancel, source, wdVars,
                 attempts, nWouldBlock, accepted, notifiedRetries, lastSend,
                 queried, cancelZero, cancelProgress, removedWhileParked,
                 parked>>

\* Lines 483-516: agent_lock () has been waited for and returns; the
\* component is looked at under the lock, the lock and the agent are let go.
is_writable_locked(c) ==
  /\ pc = "iw_lock" /\ agentLock = "none"
  /\ queried' = TRUE
  /\ result' = (IF ComponentWritable(c) THEN 1 ELSE 0) /\ resErr' = "none"
  /\ agentRefs' = agentRefs - 1
  /\ pc' = "done" /\ closedAtReturn' = closed
  /\ UNCHANGED <<streamVars, agentOwner, agentLock, op, count, hasToken,
                 cancelled, cancelCb, len, childErr, sendSawCancel, source,
                 wdVars, attempts, nWouldBlock, accepted, notifiedRetries,
                 lastSend, closedAtCall, agentGoneAtCall, cancelZero,
                 cancelProgress, removedWhileParked, parked>>

\* Lines 563-589: the source and the child for the caller's token are made,
\* then closed? agent gone?  The handle is described by its child sources.
create_source(tok, pre) ==
  /\ pc = "idle"
  /\ hasToken' = tok /\ cancelled' = (tok /\ pre)
  /\ closedAtCall' = closed /\ agentGoneAtCall' = ~AgentAlive
  /\ source' = [cancellable |-> tok, tcp_writable |-> FALSE]
  /\ IF StreamIsClosed \/ ~WeakRefGet
       THEN /\ ReturnNow("create_source", 0, "none")
            /\ UNCHANGED agentRefs
       ELSE /\ pc' = "cs_lock" /\ op' = "create_source"
            /\ agentRefs' = agentRefs + 1
            /\ UNCHANGED <<result, resErr, closedAtReturn>>
  /\ UNCHANGED <<streamVars, agentOwner, agentLock, count, cancelCb, len,
                 childErr, sendSawCancel, wdVars, attempts, nWouldBlock,
                 accepted, notifiedRetries, lastSend, queried, cancelZero,
                 cancelProgress, removedWhileParked, parked>>

\* Lines 591-615: agent_lock () has been waited for and returns; the child
\* for component->tcp_writable_cancellable is added under the lock.
create_source_locked(c) ==
  /\ pc = "cs_lock" /\ agentLock = "none"
  /\ queried' = TRUE
  /\ source' = [source EXCEPT !.tcp_writable = c.found /\ c.trigger]
  /\ result' = 0 /\ resErr' = "none"
  /\ agentRefs' = agentRefs - 1
  /\ pc' = "done" /\ closedAtReturn' = closed
  /\ UNCHANGED <<streamVars, agentOwner, agentLock, op, count, hasToken,
                 cancelled, cancelCb, len, childErr, sendSawCancel,
                 wdVars, attempts, nWouldBlock, accepted, notifiedRetries,
                 lastSend, closedAtCall, agentGoneAtCall, cancelZero,
                 cancelProgress, removedWhileParked, parked>>

\* Lines 529-545: closed? agent gone? count == 0?
write_nonblocking_entry(cnt) ==
  /\ pc = "idle"
  /\ agentRefs < MaxAgentRefs
  /\ count' = cnt
  /\ closedAtCall' = closed /\ agentGoneAtCall' = ~AgentAlive
  /\ IF StreamIsClosed \/ ~WeakRefGet
       THEN /\ ReturnNow("write_nonblocking", -1, "Closed")
            /\ UNCHANGED agentRefs
       ELSE /\ agentRefs' = agentRefs + 1
            /\ IF ZeroLength(cnt)
                 THEN ReturnNow("write_nonblocking", 0, "none")
                 ELSE /\ pc' = "nb_check" /\ op' = "write_nonblocking"
                      /\ UNCHANGED <<result, resErr, closedAtReturn>>
  /\ UNCHANGED <<streamVars, agentOwner, agentLock, hasToken, cancelled,
                 cancelCb, len, childErr,
                 sendSawCancel, source, wdVars, attempts, nWouldBlock, accepted,
                 notifiedRetries, lastSend, queried, cancelZero, cancelProgress,
                 removedWhileParked, parked>>

\* Line 548, into nice_output_stream_is_writable (lines 475-481): closed?
\* agent gone?  Either ends the writability test with FALSE and the call with
\* WouldBlock (lines 549-551, the agent not released); else the test takes
\* its own reference on the agent and asks for the agent's lock.
write_nonblocking_check ==
  /\ pc = "nb_check"
  /\ IF StreamIsClosed \/ ~WeakRefGet
       THEN /\ pc' = "done" /\ result' = -1 /\ resErr' = "WouldBlock"
            /\ closedAtReturn' = closed
            /\ UNCHANGED agentRefs
       ELSE /\ pc' = "nb_lock"
            /\ agentRefs' = agentRefs + 1
            /\ UNCHANGED <<result, resErr, closedAtReturn>>
  /\ UNCHANGED <<streamVars, agentOwner, agentLock, op, count, hasToken,
                 cancelled, cancelCb, len, childErr, sendSawCancel, source,
                 wdVars, attempts, nWouldBlock, accepted, notifiedRetries,
                 lastSend, closedAtCall, agentGoneAtCall, queried, cancelZero,
                 cancelProgress, removedWhileParked, parked>>

\* Lines 483-516 inside the test, then 548-552: agent_lock () has been waited
\* for and returns; the component is looked at under the lock, the lock and
\* the test's reference are let go; not writable is WouldBlock.
write_nonblocking_check_locked(c) ==
  /\ pc = "nb_lock" /\ agentLock = "none"
  /\ queried' = TRUE
  /\ agentRefs' = agentRefs - 1
  /\ IF ~ComponentWritable(c)
       THEN /\ pc' = "done" /\ result' = -1 /\ resErr' = "WouldBlock"
            /\ closedAtReturn' = closed
       ELSE /\ pc' = "nb_send"
            /\ UNCHANGED <<result, resErr, closedAtReturn>>
  /\ UNCHANGED <<streamVars, agentOwner, agentLock, op, count, hasToken,
                 cancelled, cancelCb, len, childErr, sendSawCancel, source,
                 wdVars, attempts, nWouldBlock, accepted, notifiedRetries,
                 lastSend, closedAtCall, agentGoneAtCall, cancelZero,
                 cancelProgress, removedWhileParked, parked>>

\* Lines 554-559: one send (no token), drop the agent, return.
write_nonblocking_send ==
  /\ pc = "nb_send" /\ agentLock = "none"
  /\ \E r \in AgentSend(count, FALSE) :
       /\ attempts' = attempts + 1
       /\ lastSend' = IF r.n > 0 THEN "accepted" ELSE r.err
       /\ accepted' = IF r.n > 0 THEN r.n ELSE 0
       /\ nWouldBlock' = IF r.err = "WouldBlock" THEN 1 ELSE 0
       /\ result' = NonblockingResult(r.n, count)
       /\ resErr' = r.err
  /\ agentRefs' = agentRefs - 1
  /\ pc' = "done" /\ closedAtReturn' = closed
  /\ UNCHANGED <<streamVars, agentOwner, agentLock, op, count, hasToken,
                 cancelled,
                 cancelCb, len, childErr, sendSawCancel, source, wdVars,
                 notifiedRetries,
                 closedAtCall, agentGoneAtCall, queried, cancelZero,
                 cancelProgress, removedWhileParked, parked>>

(***************************************************************************)
(* What happens around the calling thread.                                 *)
(***************************************************************************)
\* g_cancellable_cancel on the token of the running call.
Cancel ==
  /\ hasToken /\ ~cancelled /\ pc \notin {"idle", "done", "abort"}
  /\ cancelled' = TRUE
  /\ cancelCb' = cancelSub
  /\ cancelZero' = (cancelZero \/ pc \in {"lock", "loop", "send_call", "wait"})
  /\ cancelProgress' = (cancelProgress \/ accepted > 0)
  /\ UNCHANGED <<streamVars, agentVars, pc, op, count, hasToken, len, childErr,
                 sendSawCancel, result, resErr, source, wdVars, attempts,
                 nWouldBlock, accepted, notifiedRetries, lastSend, closedAtCall,
                 agentGoneAtCall, closedAtReturn, queried, removedWhileParked, parked>>

\* The "cancelled" handler runs once it gets write_data->mutex.
CancelDelivered ==
  /\ cancelCb /\ mutex = "none"
  /\ cancelCb' = FALSE
  /\ UNCHANGED cancelled
  /\ write_cancelled_cb
  /\ UNCHANGED <<streamVars, agentVars, pc, op, count, hasToken, len, childErr,
                 sendSawCancel, result, resErr, source, wdRef, wdWritable,
                 mutex, writableSub, cancelSub, histVars>>

\* An agent context takes the agent's lock and emits "reliable-transport-
\* writable": the connected handler of the running write is invoked (the
\* emission holds its closure from here on) and goes for write_data->mutex,
\* line 340.  agentLock = "agent" says that this invocation is under way.
WritableEmit ==
  /\ writableSub /\ AgentAlive /\ agentLock = "none"
  /\ agentLock' = "agent"
  /\ UNCHANGED <<streamVars, agentOwner, agentRefs, callVars, wdVars, histVars>>

\* Lines 334-344: the invoked handler gets write_data->mutex and runs; the
\* context then lets go of the agent's lock.  g_signal_handler_disconnect does
\* not wait for it: a handler invoked before line 437 runs after line 438 all
\* the same, on the WriteData that its closure has kept, and the closure's
\* reference is dropped when it returns.  agentLock = "late": the call has
\* returned to its caller meanwhile, and the WriteData the handler works on is
\* not that of any call that followed.
WritableSignal ==
  /\ \/ agentLock = "agent" /\ mutex = "none"
     \/ agentLock = "late"
  /\ agentLock' = "none"
  /\ IF agentLock = "agent"
       THEN /\ reliable_transport_writeable_cb
            /\ wdRef' = IF writableSub THEN wdRef ELSE wdRef - 1
       ELSE UNCHANGED <<wdWritable, woken, wdRef>>
  /\ UNCHANGED <<streamVars, agentOwner, agentRefs, callVars, wdError,
                 mutex, writableSub, cancelSub, histVars>>

AgentContextStep == WritableSignal

\* Lines 618-631: the agent emits "streams-removed" with a list of ids.
streams_removed_cb(ids) ==
  /\ AgentAlive
  /\ closed' = ClosedAfterRemoval(closed, ids, stream_id)
  /\ lastRemoval' = IF \E i \in DOMAIN ids : ids[i] = stream_id
                      THEN (IF closed THEN "again" ELSE "own")
                      ELSE "others"
  /\ removedWhileParked' =
       (removedWhileParked \/ (pc = "wait" /\ IdsContain(ids, stream_id)))
  /\ UNCHANGED <<stream_id, agentVars, callVars, wdVars, attempts, nWouldBlock,
                 accepted, notifiedRetries, lastSend, closedAtCall,
                 agentGoneAtCall, closedAtReturn, queried, cancelZero,
                 cancelProgress, parked>>

\* g_output_stream_close from any thread.
Close ==
  /\ closed' = ClosedAfterClose(closed)
  /\ UNCHANGED <<stream_id, lastRemoval, agentVars, callVars, wdVars, histVars>>

\* The application drops its reference on the agent.
AgentUnref ==
  /\ agentOwner
  /\ agentOwner' = FALSE
  /\ UNCHANGED <<streamVars, agentRefs, agentLock, callVars, wdVars, histVars>>

\* Lines 196-206, PROP_AGENT: the application reads the stream's "agent"
\* property and is handed a new strong reference on an agent that is still
\* alive (kept by a running or a returned operation).
get_property ==
  /\ ~agentOwner /\ WeakRefGet
  /\ agentOwner' = TRUE
  /\ UNCHANGED <<streamVars, agentRefs, agentLock, callVars, wdVars, histVars>>

WriterStep ==
  \/ write_connect_cancel \/ write_lock_connect \/ write_loop_clear
  \/ write_send_call \/ write_send_return \/ write_wake
  \/ write_disconnect \/ write_cancel_disconnect \/ write_finish
  \/ write_nonblocking_check
  \/ (\E c \in ComponentStates : write_nonblocking_check_locked(c))
  \/ write_nonblocking_send
  \/ (\E c \in ComponentStates : is_writable_locked(c))
  \/ (\E c \in ComponentStates : create_source_locked(c))

Next ==
  \/ \E cnt \in 0..MaxCount, tok, pre \in BOOLEAN : write_entry(cnt, tok, pre)
  \/ write_connect_cancel
  \/ write_lock_connect
  \/ write_loop_clear
  \/ write_send_call
  \/ write_send_return
  \/ write_wake
  \/ write_disconnect
  \/ write_cancel_disconnect
  \/ write_finish
  \/ Return
  \/ is_writable
  \/ \E c \in ComponentStates : is_writable_locked(c)
  \/ \E tok, pre \in BOOLEAN : create_source(tok, pre)
  \/ \E c \in ComponentStates : create_source_locked(c)
  \/ \E cnt \in 0..MaxCount : write_nonblocking_entry(cnt)
  \/ write_nonblocking_check
  \/ \E c \in ComponentStates : write_nonblocking_check_locked(c)
  \/ write_nonblocking_send
  \/ Cancel
  \/ CancelDelivered
  \/ WritableEmit
  \/ WritableSignal
  \/ \E ids \in IdLists : streams_removed_cb(ids)
  \/ Close
  \/ AgentUnref
  \/ get_property

Spec == Init /\ [][Next]_vars

\* The steps the calling thread is bound to take: all of them but a return
\* of g_cond_wait that no broadcast has caused.
WriterProgress == WriterStep /\ (pc = "wait" => woken)

\* The calling thread keeps running, the agent's send returns, and a handler
\* whose invocation has begun runs; nothing obliges the agent to emit a signal,
\* anyone to cancel, the condition to wake a waiter by itself, or the caller
\* to start another operation.  The send gets the agent's lock in the end,
\* however often agent contexts take it.
FairSpec ==
  /\ Spec
  /\ WF_vars(WriterProgress) /\ WF_vars(CancelDelivered)
  /\ WF_vars(AgentContextStep)
  /\ SF_vars(write_send_call)

(***************************************************************************)
(* Properties.                                                             *)
(***************************************************************************)
Finished == pc \in {"done", "abort"}
IsWrite == op \in {"write", "write_nonblocking"}

\* C1: an operation invoked on a closed stream returns at once: both writes
\* fail with Closed having made no send attempt and allocated nothing,
\* is_writable answers FALSE, and create_source hands back a source built
\* without asking the agent, whatever the length and the token.
C1_ClosedContract ==
  closedAtCall =>
    /\ pc = "done"
    /\ attempts = 0 /\ wdRef = 0 /\ ~writableSub /\ ~cancelSub
    /\ IsWrite => (result = -1 /\ resErr = "Closed")
    /\ op = "is_writable" => result = 0
    /\ op = "create_source" =>
         (~queried /\ source = [cancellable |-> hasToken, tcp_writable |-> FALSE])

C1_Witness ==
  pc = "done" /\ closedAtCall /\ ~agentGoneAtCall /\ op = "write" /\ count > 0
  /\ hasToken /\ resErr = "Closed"

\* C2: once streams-removed has named this stream while the writer was
\* parked in g_cond_wait, the write call returns.
C2_ParkedWriterReturns ==
  (pc = "wait" /\ removedWhileParked) ~> Finished

\* C3: a cancellation that fires while nothing has been accepted -- before
\* g_cancellable_connect, between two sends, or while the writer is parked --
\* sets write_data->error and leads to the call returning Cancelled.
C3_CancelAtZeroReturnsCancelled ==
  cancelZero ~> (pc = "done" /\ op = "write" /\ wdError /\ result = -1
                 /\ resErr = "Cancelled")

\* C4: after a send failed with an error other than WouldBlock the loop is
\* over, and the call returns the bytes accepted so far when there are any,
\* and that error when there are none.
C4_ErrorAfterProgress ==
  (op = "write" /\ lastSend \in {"Failed", "Cancelled"}) =>
    /\ pc \in {"disconnect", "cancel_disconnect", "finish", "done"}
    /\ pc = "done" =>
         IF accepted > 0
           THEN result = accepted /\ resErr = "none"
           ELSE result = -1 /\ resErr = lastSend

C4_Witness ==
  pc = "done" /\ op = "write" /\ lastSend = "Failed" /\ nWouldBlock > 0
  /\ resErr = "Failed"

\* C5: a blocking write whose token fired after k > 0 bytes were accepted
\* returns k and no error.
C5_CancelAfterProgressReturnsAccepted ==
  (pc = "done" /\ op = "write" /\ cancelProgress) =>
    (result = accepted /\ resErr = "none")

\* C6: the two closing assertions of write never fail, and a write of
\* count > 0 returns either a positive count and no error or -1 and an error.
C6_NeverBareZero ==
  /\ pc # "abort"
  /\ (pc = "done" /\ op = "write" /\ count > 0) =>
       \/ result > 0 /\ resErr = "none"
       \/ result = -1 /\ resErr # "none"

C6_Witness ==
  pc = "done" /\ op = "write" /\ count > 0 /\ ~hasToken /\ attempts = 1
  /\ result = -1 /\ resErr = "Failed"

\* C7: when the send answers WouldBlock N times and then takes the whole
\* buffer, write has made N+1 attempts, every retry followed a writability
\* notification delivered after the attempt before it, and count is returned.
C7_RetryPerWouldBlock ==
  (pc = "done" /\ op = "write" /\ lastSend = "accepted" /\ accepted = count) =>
    /\ attempts = nWouldBlock + 1
    /\ notifiedRetries = nWouldBlock
    /\ result = count /\ resErr = "none"

\* C8: a successful blocking write returns the sum of the bytes the agent
\* accepted, having gone on until that sum was the requested length.
C8_ReturnIsSumAccepted ==
  (pc = "done" /\ op = "write" /\ count > 0 /\ resErr = "none") =>
    (result = accepted /\ accepted = count)

\* C9: no write returns a success count when the stream is closed at the
\* moment it returns, and is_writable is FALSE whenever the stream is closed.
C9_NoSuccessOnceClosed ==
  /\ (pc = "done" /\ IsWrite /\ resErr = "none" /\ result > 0) => ~closedAtReturn
  /\ (pc = "done" /\ op = "is_writable" /\ closedAtCall) => result = 0

\* C10: with the agent finalised, both writes fail with Closed for every
\* length, zero included, with no send attempt and no WriteData, and
\* is_writable answers FALSE.
C10_AgentGone ==
  (agentGoneAtCall /\ op # "create_source") =>
    /\ pc = "done"
    /\ attempts = 0 /\ wdRef = 0 /\ ~writableSub /\ ~cancelSub /\ agentRefs = 0
    /\ IsWrite => (result = -1 /\ resErr = "Closed")
    /\ op = "is_writable" => result = 0

C10_Witness ==
  pc = "done" /\ agentGoneAtCall /\ ~closedAtCall /\ op = "write_nonblocking"
  /\ count = 0 /\ resErr = "Closed"

\* C11: an operation that has returned keeps no strong reference on the
\* agent: whenever no operation is running, the references taken by stream
\* operations and not yet dropped number zero.
C11_NoAgentRefKept ==
  pc \in {"idle", "done"} => agentRefs = 0

\* C12: a step of write that removes the writability handler or the
\* cancellation handler is taken with write_data->mutex not held by the
\* calling thread, and a write that has returned has neither handler left.
C12_UnsubscribeOutsideMutex ==
  [][/\ ((writableSub /\ ~writableSub') \/ (cancelSub /\ ~cancelSub'))
          => mutex # "writer"
     /\ (pc' = "done" /\ op' = "write") => (~writableSub' /\ ~cancelSub')]_vars

\* C13: while the calling thread is inside the agent's send it does not hold
\* write_data->mutex; while it is parked in g_cond_wait it does not hold the
\* agent's lock (nor the mutex, which the wait has given up); and at every
\* other point of a blocking write the thread, or a cancellation callback
\* that is already running, or the agent context that has the agent's lock,
\* can take a step, so g_cond_wait is the only place where the call waits
\* for something to happen.
C13_LockDiscipline ==
  /\ pc = "in_send" => mutex # "writer"
  /\ agentLock = "writer" => (pc = "in_send" /\ mutex = "none")
  /\ pc = "wait" => (agentLock # "writer" /\ mutex = "none")
  /\ (op = "write" /\ pc \notin {"idle", "done", "abort", "wait"}) =>
       ENABLED (WriterStep \/ CancelDelivered \/ AgentContextStep)

C13_Witness ==
  pc = "wait" /\ ~woken /\ attempts = 2 /\ nWouldBlock = 2 /\ hasToken

\* C14: WriteData's reference count stays positive while the call frame, a
\* connected handler or a running callback can still reach it, never drops
\* below zero, and is zero once a blocking write has returned (its handlers
\* being disconnected by then), with a token or without one.
C14_WaiterFreedOnReturn ==
  /\ (\/ writableSub \/ cancelSub \/ cancelCb \/ agentLock = "agent"
      \/ (op = "write" /\ pc \notin {"idle", "done", "abort"})) => wdRef > 0
  /\ wdRef >= 0
  /\ (pc = "done" /\ op = "write") => (~writableSub /\ ~cancelSub /\ wdRef = 0)

\* C15: a write_nonblocking of count > 0 on an open stream with a live agent
\* that returns without having called the agent's send returns WouldBlock;
\* otherwise it has called the send exactly once and returns what that send
\* reported: the number of bytes it accepted and no error, or -1 and its error.
C15_NonblockingPassesSendResult ==
  (pc = "done" /\ op = "write_nonblocking" /\ count > 0
   /\ ~closedAtCall /\ ~agentGoneAtCall) =>
    IF attempts = 0
      THEN result = -1 /\ resErr = "WouldBlock"
      ELSE /\ attempts = 1
           /\ IF lastSend = "accepted"
                THEN result = accepted /\ resErr = "none"
                ELSE result = -1 /\ resErr = lastSend

\* C16: a write or write_nonblocking of count 0 on an open stream whose agent
\* is alive has returned 0 and no error as soon as it was called, with no
\* WriteData allocated, no handler connected and no call of the agent's send.
C16_ZeroLengthWrite ==
  (IsWrite /\ count = 0 /\ ~closedAtCall /\ ~agentGoneAtCall) =>
    /\ pc = "done"
    /\ result = 0 /\ resErr = "none"
    /\ wdRef = 0 /\ ~writableSub /\ ~cancelSub /\ ~cancelCb
    /\ attempts = 0

C16_Witness ==
  pc = "done" /\ op = "write" /\ count = 0 /\ hasToken /\ cancelled
  /\ ~closedAtCall /\ ~agentGoneAtCall /\ result = 0

\* C17: write never returns WouldBlock: after a send of write answered
\* WouldBlock the call is still in its loop, parked or about to send again;
\* after a send answered with any other error the loop is over and that
\* error is what write returns; and a WouldBlock answered to the send of
\* write_nonblocking is what write_nonblocking returns.
C17_WouldBlockAbsorbed ==
  /\ (pc = "done" /\ op = "write") => resErr # "WouldBlock"
  /\ (op = "write" /\ lastSend = "WouldBlock") =>
       pc \in {"wait", "loop", "send_call", "in_send"}
  /\ (op = "write" /\ lastSend \in {"Failed", "Cancelled"}) =>
       /\ pc \in {"disconnect", "cancel_disconnect", "finish", "done"}
       /\ childErr = lastSend
       /\ pc = "done" => (result = -1 /\ resErr = lastSend)
  /\ (pc = "done" /\ op = "write_nonblocking" /\ lastSend = "WouldBlock") =>
       (result = -1 /\ resErr = "WouldBlock")

C17_Witness ==
  pc = "done" /\ op = "write" /\ hasToken /\ nWouldBlock = 1
  /\ lastSend = "accepted" /\ count = 2 /\ result = 2 /\ resErr = "none"

\* C18: a streams-removed notification that names the stream's own id
\* leaves the stream closed; one that names other ids only leaves closed as
\* it was; and either changes nothing else of the stream, of the agent, of
\* the running call or of its WriteData.  Stated step by step: a step that
\* does not fit this description is not a step of streams_removed_cb.
C18_RemovedClosesOwnStreamOnly ==
  [][~(/\ lastRemoval' \in {"own", "again"} => closed'
       /\ lastRemoval' = "others" => closed' = closed
       /\ lastRemoval' \in {"own", "again", "others"}
       /\ UNCHANGED <<stream_id, agentVars, callVars, wdVars>>)
       => ~(\E ids \in IdLists : streams_removed_cb(ids))]_vars

\* C19: no step takes closed from TRUE back to FALSE, and a g_output_stream_close
\* or a streams-removed notification that finds the stream closed already
\* leaves the stream, the agent, the running call and its WriteData as they
\* were, so that what any operation does afterwards is what it did after the
\* first close.  The second part is stated step by step: a step from a closed
\* stream that changes any of these is neither a close nor a notification.
C19_ClosedMonotonicIdempotent ==
  [][/\ closed => closed'
     /\ (closed /\ ~UNCHANGED <<closed, stream_id, agentVars, callVars, wdVars>>)
          => ~(Close \/ \E ids \in IdLists : streams_removed_cb(ids))]_vars

C19_Witness ==
  closed /\ lastRemoval = "again" /\ pc = "done" /\ closedAtCall
  /\ op = "write_nonblocking" /\ resErr = "Closed"

\* C20: for the WriteData of a running write: the step that brings the call
\* to a send is taken with the mutex held and leaves writable FALSE, and
\* every send of the call starts from there; writable becomes TRUE only in a
\* step of the writability handler and goes back to FALSE only on the way to
\* the next send; error goes from unset to set only, in a step of the
\* cancellation callback on a token that is cancelled.
C20_WaiterFields ==
  [][/\ (pc' = "send_call" /\ pc # "send_call") =>
          (mutex = "writer" /\ ~wdWritable')
     /\ (op' = "write" /\ attempts' # attempts) =>
          (pc = "send_call" /\ attempts' = attempts + 1)
     /\ (~wdWritable /\ wdWritable') => WritableSignal
     /\ (wdWritable /\ ~wdWritable') => (write_loop_clear \/ Return)
     /\ (wdError' # wdError /\ pc' # "idle") =>
          /\ ~wdError /\ wdError' /\ hasToken /\ cancelled'
          /\ CancelDelivered \/ write_connect_cancel]_vars

C20_Witness ==
  op = "write" /\ pc = "loop" /\ attempts = 1 /\ nWouldBlock = 1
  /\ wdWritable /\ wdError /\ mutex = "writer"

\* C21: no wake-up is lost.  When the send of write answers WouldBlock while
\* writable or error is already set -- the handler or the cancellation
\* callback ran after line 412 cleared the flag, the send still in progress
\* -- the writer keeps the mutex and goes to the next attempt instead of
\* waiting; it enters g_cond_wait only with writable FALSE and error unset;
\* and while it is in g_cond_wait it has been signalled exactly when one of
\* the two is set.
C21_NoLostWakeup ==
  [][/\ (pc = "in_send" /\ lastSend' = "WouldBlock" /\ pc' # "in_send"
         /\ (wdWritable \/ wdError)) =>
          (pc' = "loop" /\ mutex' = "writer" /\ parked' = parked)
     /\ (pc # "wait" /\ pc' = "wait") =>
          (pc = "in_send" /\ ~wdWritable' /\ ~wdError' /\ ~woken')
     /\ pc' = "wait" => (woken' <=> (wdWritable' \/ wdError'))]_vars

C21_Witness ==
  op = "write" /\ pc = "loop" /\ ~parked /\ attempts = 1 /\ nWouldBlock = 1
  /\ lastSend = "WouldBlock" /\ wdWritable /\ ~wdError /\ ~hasToken

\* C22: the writer and a callback context never wait for each other.  The
\* writer is never stopped before the send for the agent's lock while it
\* holds the mutex that the agent context, which has that lock, needs for the
\* handler; it is never stopped in g_cancellable_disconnect for a callback
\* that needs a mutex the writer holds; and whenever an agent context has
\* the agent's lock, that context, the writer or a running cancellation
\* callback can take a step.
C22_NoDeadlock ==
  /\ ~(pc = "send_call" /\ agentLock = "agent" /\ mutex = "writer")
  /\ ~(pc = "cancel_disconnect" /\ cancelCb /\ mutex = "writer")
  /\ agentLock \in {"agent", "late"} =>
       ENABLED (AgentContextStep \/ WriterStep \/ CancelDelivered)

C22_Witness ==
  agentLock = "agent" /\ writableSub /\ mutex = "writer" /\ pc = "loop"
  /\ nWouldBlock = 1 /\ attempts = 1 /\ ~wdWritable

====
